---- MODULE Spec2Model ----
(***************************************************************************)
(* A model of git-branchless: the smartlog commit graph (core/graph.rs),   *)
(* the merge-base database (mergebase.rs) and the hook installer           *)
(* (commands/init.rs).                                                     *)
(*                                                                         *)
(* Commits are numbered 1..NumCommits; a commit's VCS parents are commits  *)
(* with a smaller number, so the numbering is a topological order of the   *)
(* repository's history (the code never compares OIDs by order).           *)
(***************************************************************************)
EXTENDS Integers, Sequences, FiniteSets, TLC

VARIABLES
    parents,          \* the repository: commit OID -> its ordered VCS parent OIDs
    main_branch_oid,  \* MainBranchOid
    head_oid,         \* HeadOid (None when HEAD has no OID)
    branch_oids,      \* BranchOids, as far as the seed loop has met them
    commit_oids,      \* CommitOids: the seeds the loop of walk_from_commits has taken
    graph,            \* CommitGraph: OID -> Node
    walked,           \* the value walk_from_commits returned (graph before pruning)
    remove_commits,   \* make_graph's remove_commits argument
    pc,               \* position inside make_graph: "walk", "linked", "done"
    merge_base_oids,  \* the rows of table merge_base_oids
    mb_last,          \* the latest call of get_merge_base_oid and what it returned
    mb_returned,      \* the calls of get_merge_base_oid that returned Ok so far
    mb_calls,         \* the number of calls of get_merge_base_oid so far
    hook_original,    \* the hook file before the first install (NoFile: absent)
    hook_file,        \* the hook file
    hook_script,      \* the script install_hook is given for the hook
    hook_updates,     \* the number of installs so far
    fp_last,          \* the latest call of find_path_to_merge_base_internal and its result
    fp_calls,         \* the number of calls of find_path_to_merge_base_internal so far
    bfs_pc,           \* find_path_to_merge_base_internal: "idle", "loop", "found", "none"
    bfs_commit_oid,   \* its commit_oid argument
    bfs_target_oid,   \* its target_oid argument
    bfs_merge_base_oid, \* its local merge_base_oid
    bfs_queue,        \* its queue of paths (the returned path alone once found)
    log_max_level,    \* log::max_level(), the process-wide maximum log level
    siv_pc,           \* with_siv: "idle", "in_f", "returned", "unwound"
    old_max_level,    \* with_siv's local old_max_level
    siv_result,       \* what f returned: "Ok", "Err", or NoResult
    siv_f_steps,      \* how many steps f has run in the current call
    siv_calls,        \* the number of calls of with_siv so far
    siv_level_at_call,\* history: log::max_level() when with_siv was called
    events,           \* CursiveTestingBackend.events
    event_index,      \* CursiveTestingBackend.event_index
    just_emitted_event, \* CursiveTestingBackend.just_emitted_event
    screen,           \* CursiveTestingBackend.screen
    screen_targets,   \* the screenshot cells (Rc<RefCell<Screen>>) the events refer to
    polled,           \* history: what the calls of poll_event returned, in order
    mv_pc,            \* move: where it is ("idle", "start", "resolved", "make_graph",
                      \* "graph", "base", "tx", "plan", "returned", "failed", "panicked")
    mv_args,          \* the arguments and HEAD of a move that ended before make_graph
    should_resolve_base_commit, \* move's local, once it has been read
    source_oid,       \* move's local source_oid, once it has been read
    event_tx_id,      \* move's local event_tx_id
    rebase_plan,      \* move's local rebase_plan
    mv_exit,          \* the exit code move returned
    event_tx_ids,     \* the transaction ids this invocation allocated in the event log
    event_log         \* the rewrite events recorded while this invocation ran

graphVars == <<parents, main_branch_oid, head_oid, branch_oids, commit_oids,
               graph, walked, remove_commits, pc>>

mergeBaseVars == <<merge_base_oids, mb_last, mb_returned, mb_calls>>

hookVars == <<hook_original, hook_file, hook_script, hook_updates>>

findPathVars == <<fp_last, fp_calls>>

bfsVars == <<bfs_pc, bfs_commit_oid, bfs_target_oid, bfs_merge_base_oid, bfs_queue>>

\* The variables of the parts modelled further below.
sivVars == <<log_max_level, siv_pc, old_max_level, siv_result, siv_f_steps, siv_calls,
             siv_level_at_call>>

backendVars == <<events, event_index, just_emitted_event, screen, screen_targets, polled>>

moveVars == <<mv_pc, mv_args, should_resolve_base_commit, source_oid, event_tx_id,
              rebase_plan, mv_exit, event_tx_ids, event_log>>

laterVars == <<bfsVars, sivVars, backendVars, moveVars>>

vars == <<graphVars, mergeBaseVars, hookVars, findPathVars, laterVars>>

\* Number of commits in the repository.
NumCommits == 3

Oid == 1..NumCommits

\* Option::None for an OID.
None == 0

Range(s) == {s[i] : i \in 1..Len(s)}

Max(S) == CHOOSE x \in S : \A y \in S : y <= x

\* The parent lists a commit numbered c may have: a root, a single parent,
\* or a two-parent merge (first parent, second parent).
ParentLists(c) ==
    {<<>>} \cup {<<p>> : p \in 1..(c - 1)}
           \cup {pq \in (1..(c - 1)) \X (1..(c - 1)) : pq[1] /= pq[2]}

\* Every repository history over the commits.
Repos ==
    {f \in [Oid -> UNION {ParentLists(c) : c \in Oid}] : \A c \in Oid : f[c] \in ParentLists(c)}

\* A commit and all its VCS ancestors.
RECURSIVE Ancestors(_)
Ancestors(c) == {c} \cup UNION {Ancestors(p) : p \in Range(parents[c])}

\* The common ancestors of a and b that are not an ancestor of another one.
BestCommonAncestors(a, b) ==
    LET common == Ancestors(a) \cap Ancestors(b)
    IN  {c \in common : \A d \in common \ {c} : c \notin Ancestors(d)}

\* repo.merge_base(a, b): Ok(oid) or the NotFound error. Of several best
\* common ancestors libgit2 reports the most recent one.
VcsMergeBase(a, b) ==
    LET best == BestCommonAncestors(a, b)
    IN  IF best = {}
        THEN [kind |-> "NotFound", oid |-> None]
        ELSE [kind |-> "Ok", oid |-> Max(best)]

\* A failure of the VCS other than NotFound.
GenericError == [kind |-> "Generic", oid |-> None]

\* A get_merge_base_oid that treats NotFound like any other error.
get_merge_base_oid_mut_not_found(outcome) ==
    IF outcome.kind = "Ok" THEN [tag |-> "Ok", value |-> outcome.oid]
    ELSE [tag |-> "Err", value |-> None]

\* MergeBaseDb::get_merge_base_oid, from the outcome of the query it issues.

get_merge_base_oid_result(outcome) ==
    IF outcome.kind = "Ok" THEN [tag |-> "Ok", value |-> outcome.oid]
    ELSE IF outcome.kind = "NotFound" THEN [tag |-> "Ok", value |-> None]
    ELSE [tag |-> "Err", value |-> None]

\* get_merge_base_oid(repo, lhs, rhs) when the VCS does not fail.
get_merge_base_oid(lhs_oid, rhs_oid) ==
    get_merge_base_oid_result(VcsMergeBase(lhs_oid, rhs_oid)).value

\* Option::None for a path (a path is never empty).
NoPath == <<>>

\* The loop of find_path_to_merge_base_internal over its queue of paths.
RECURSIVE find_path_loop(_, _, _)

\* A loop that pushes the new paths to the front of the queue (depth first).
find_path_loop_mut_depth_first(queue, target_oid, merge_base_oid) ==
    IF queue = <<>> THEN NoPath
    ELSE LET path == Head(queue)
             last_commit == path[Len(path)]
         IN  IF last_commit = target_oid THEN path
             ELSE IF last_commit = merge_base_oid
             THEN find_path_loop(Tail(queue), target_oid, merge_base_oid)
             ELSE find_path_loop(
                    [i \in 1..Len(parents[last_commit]) |->
                            Append(path, parents[last_commit][i])] \o Tail(queue),
                    target_oid, merge_base_oid)

\* A loop that follows the first parent of a commit only.
find_path_loop_mut_first_parent(queue, target_oid, merge_base_oid) ==
    IF queue = <<>> THEN NoPath
    ELSE LET path == Head(queue)
             last_commit == path[Len(path)]
         IN  IF last_commit = target_oid THEN path
             ELSE IF last_commit = merge_base_oid
             THEN find_path_loop(Tail(queue), target_oid, merge_base_oid)
             ELSE find_path_loop(
                    Tail(queue) \o [i \in 1..(IF parents[last_commit] = <<>> THEN 0 ELSE 1) |->
                                        Append(path, parents[last_commit][i])],
                    target_oid, merge_base_oid)

find_path_loop(queue, target_oid, merge_base_oid) ==
    IF queue = <<>> THEN NoPath
    ELSE LET path == Head(queue)
             last_commit == path[Len(path)]
         IN  IF last_commit = target_oid THEN path
             ELSE IF last_commit = merge_base_oid
             THEN find_path_loop(Tail(queue), target_oid, merge_base_oid)
             ELSE find_path_loop(
                    Tail(queue) \o [i \in 1..Len(parents[last_commit]) |->
                                        Append(path, parents[last_commit][i])],
                    target_oid, merge_base_oid)

find_path_to_merge_base(commit_oid, target_oid) ==
    find_path_loop(<<(<<commit_oid>>)>>, target_oid,
                   get_merge_base_oid(commit_oid, target_oid))

\* The OIDs the loop of find_path_to_merge_base_internal passes to
\* visited_commit_callback.
RECURSIVE visited_loop(_, _, _)

\* A loop without the stop at the merge-base.
visited_loop_mut_no_stop(queue, target_oid, merge_base_oid) ==
    IF queue = <<>> THEN {}
    ELSE LET path == Head(queue)
             last_commit == path[Len(path)]
         IN  IF last_commit = target_oid THEN {}
             ELSE Range(parents[last_commit]) \cup
                  visited_loop(
                    Tail(queue) \o [i \in 1..Len(parents[last_commit]) |->
                                        Append(path, parents[last_commit][i])],
                    target_oid, merge_base_oid)

visited_loop(queue, target_oid, merge_base_oid) ==
    IF queue = <<>> THEN {}
    ELSE LET path == Head(queue)
             last_commit == path[Len(path)]
         IN  IF last_commit = target_oid THEN {}
             ELSE IF last_commit = merge_base_oid
             THEN visited_loop(Tail(queue), target_oid, merge_base_oid)
             ELSE Range(parents[last_commit]) \cup
                  visited_loop(
                    Tail(queue) \o [i \in 1..Len(parents[last_commit]) |->
                                        Append(path, parents[last_commit][i])],
                    target_oid, merge_base_oid)

\* Every OID find_path_to_merge_base_internal passes to
\* visited_commit_callback: commit_oid first, then those of the loop.
visited_commits(commit_oid, target_oid) ==
    {commit_oid} \cup visited_loop(<<(<<commit_oid>>)>>, target_oid,
                                   get_merge_base_oid(commit_oid, target_oid))

\* Node { parent, children, is_main, is_visible } (commit and event left out:
\* the commit is the key, the event is not read by the graph code).
Node(is_main, is_visible) ==
    [parent |-> None, children |-> {}, is_main |-> is_main, is_visible |-> is_visible]

EmptyGraph == [o \in {} |-> Node(FALSE, FALSE)]

Keys(g) == DOMAIN g

\* A seed loop that also walks to the main branch commit itself.
path_to_merge_base_mut_to_main(commit_oid) ==
    LET merge_base_oid == get_merge_base_oid(commit_oid, main_branch_oid)
    IN  IF merge_base_oid = None THEN <<commit_oid>>
        ELSE IF merge_base_oid = main_branch_oid
        THEN find_path_to_merge_base(commit_oid, merge_base_oid)
        ELSE Append(find_path_to_merge_base(commit_oid, merge_base_oid), main_branch_oid)

\* A seed loop that skips a seed that has no merge-base with the main branch.
path_to_merge_base_mut_skip(commit_oid) ==
    LET merge_base_oid == get_merge_base_oid(commit_oid, main_branch_oid)
    IN  IF merge_base_oid = None THEN NoPath
        ELSE find_path_to_merge_base(commit_oid, merge_base_oid)

\* The path the seed loop walks for a seed: None when there is no path to
\* the merge-base (the seed is skipped).
path_to_merge_base(commit_oid) ==
    LET merge_base_oid == get_merge_base_oid(commit_oid, main_branch_oid)
    IN  IF merge_base_oid = None THEN <<commit_oid>>
        ELSE find_path_to_merge_base(commit_oid, merge_base_oid)

\* An insertion loop that stops before the last commit of a path of several.
InsertedPrefix_mut_drop_last(g, path) ==
    {path[i] : i \in {j \in 1..Len(path) :
                        /\ \A k \in 1..j : path[k] \notin Keys(g)
                        /\ j < Len(path) \/ Len(path) = 1}}

\* The commits the insertion loop inserts: those of the path before the
\* first one that is in the graph already.
InsertedPrefix(g, path) ==
    {path[i] : i \in {j \in 1..Len(path) : \A k \in 1..j : path[k] \notin Keys(g)}}

\* A seed loop that skips a seed whose merge-base is in the graph already.
walk_seed_mut_skip_known_base(g, commit_oid, hidden) ==
    LET merge_base_oid == get_merge_base_oid(commit_oid, main_branch_oid)
        path == path_to_merge_base(commit_oid)
        new == InsertedPrefix(g, path)
    IN  IF path = NoPath \/ merge_base_oid \in Keys(g) THEN g
        ELSE [o \in Keys(g) \cup new |->
                IF o \in Keys(g) THEN g[o]
                ELSE Node(merge_base_oid /= None /\ o = merge_base_oid, o \notin hidden)]

\* A seed loop for which only the main branch commit itself is main.
walk_seed_mut_main_tip(g, commit_oid, hidden) ==
    LET path == path_to_merge_base(commit_oid)
        new == InsertedPrefix(g, path)
    IN  IF path = NoPath THEN g
        ELSE [o \in Keys(g) \cup new |->
                IF o \in Keys(g) THEN g[o]
                ELSE Node(o = main_branch_oid, o \notin hidden)]

\* One iteration of the seed loop of walk_from_commits; hidden is the set of
\* commits the event replayer reports as Hidden.
walk_seed(g, commit_oid, hidden) ==
    LET merge_base_oid == get_merge_base_oid(commit_oid, main_branch_oid)
        path == path_to_merge_base(commit_oid)
        new == InsertedPrefix(g, path)
    IN  IF path = NoPath THEN g
        ELSE [o \in Keys(g) \cup new |->
                IF o \in Keys(g) THEN g[o]
                ELSE Node(merge_base_oid /= None /\ o = merge_base_oid, o \notin hidden)]

\* The seed loop of walk_from_commits over the seeds in the given order; hidden
\* is the set of commits the event replayer reports as Hidden.
RECURSIVE walk_seeds(_, _, _)
walk_seeds(g, order, hidden) ==
    IF order = <<>> THEN g
    ELSE walk_seeds(walk_seed(g, Head(order), hidden), Tail(order), hidden)

\* The parent the link loop leaves in a child: the last of its VCS parents
\* that is in the graph.

linked_parent(g, child_oid) ==
    LET present == SelectSeq(parents[child_oid], LAMBDA p : p \in Keys(g))
    IN  IF present = <<>> THEN None ELSE present[Len(present)]

\* "Find immediate parent-child links" of walk_from_commits.
link_parents(g) ==
    [o \in Keys(g) |->
        [g[o] EXCEPT
            !.parent = IF g[o].is_main THEN g[o].parent ELSE linked_parent(g, o),
            !.children = g[o].children \cup
                {c \in Keys(g) : ~g[c].is_main /\ o \in Range(parents[c])}]]

\* walk_from_commits when the seed loop takes the seeds in the given order.
walk_from_commits(order, hidden) == link_parents(walk_seeds(EmptyGraph, order, hidden))

\* should_hide; its cache memoises this recursion over the children.
RECURSIVE should_hide(_, _, _)

\* A should_hide that does not look at the children.
should_hide_mut_childless(g, unhideable_oids, oid) ==
    IF oid \in unhideable_oids THEN FALSE
    ELSE IF g[oid].is_main THEN g[oid].is_visible ELSE ~g[oid].is_visible

\* A should_hide that does not read is_visible of a non-main node.
should_hide_mut_ignore_visible(g, unhideable_oids, oid) ==
    IF oid \in unhideable_oids THEN FALSE
    ELSE IF g[oid].is_main
    THEN g[oid].is_visible
         /\ \A child_oid \in {c \in g[oid].children : ~g[c].is_main} :
                should_hide(g, unhideable_oids, child_oid)
    ELSE \A child_oid \in g[oid].children : should_hide(g, unhideable_oids, child_oid)

\* A should_hide that treats a main node like any other node.
should_hide_mut_main_rule(g, unhideable_oids, oid) ==
    IF oid \in unhideable_oids THEN FALSE
    ELSE ~g[oid].is_visible
         /\ \A child_oid \in g[oid].children : should_hide(g, unhideable_oids, child_oid)

should_hide(g, unhideable_oids, oid) ==
    IF oid \in unhideable_oids THEN FALSE
    ELSE IF g[oid].is_main
    THEN g[oid].is_visible
         /\ \A child_oid \in {c \in g[oid].children : ~g[c].is_main} :
                should_hide(g, unhideable_oids, child_oid)
    ELSE ~g[oid].is_visible
         /\ \A child_oid \in g[oid].children : should_hide(g, unhideable_oids, child_oid)

\* An unhideable set that leaves HEAD out.
unhideable_mut_no_head(head, branches) == branches

\* The unhideable OIDs of do_remove_commits: the branch OIDs and HEAD.

unhideable(head, branches) ==
    branches \cup (IF head = None THEN {} ELSE {head})

\* do_remove_commits: the nodes to hide are removed, each also from the
\* children of its parent when that parent is still in the graph.
do_remove_commits(g, head, branches) ==
    LET all_oids_to_hide == {o \in Keys(g) : should_hide(g, unhideable(head, branches), o)}
    IN  [o \in Keys(g) \ all_oids_to_hide |->
            [g[o] EXCEPT !.children = @ \ {x \in all_oids_to_hide : g[x].parent = o}]]

----------------------------------------------------------------------------
(* The parts that a specification leaves alone *)

\* No call of get_merge_base_oid yet.
NoCall == [lhs_oid |-> None, rhs_oid |-> None, outcome |-> "None", tag |-> "None",
           value |-> None, known |-> FALSE, queried |-> FALSE]

\* No hook file at the hook path.
NoFile == <<"NoFile">>

GraphIdle ==
    /\ main_branch_oid = None
    /\ head_oid = None
    /\ branch_oids = {}
    /\ commit_oids = {}
    /\ graph = EmptyGraph
    /\ walked = EmptyGraph
    /\ remove_commits = FALSE
    /\ pc = "idle"

MergeBaseIdle ==
    /\ merge_base_oids = {}
    /\ mb_last = NoCall
    /\ mb_returned = {}
    /\ mb_calls = 0

HookIdle ==
    /\ hook_original = NoFile
    /\ hook_file = NoFile
    /\ hook_script = <<>>
    /\ hook_updates = 0

\* No call of find_path_to_merge_base_internal yet.
NoSearch == [commit_oid |-> None, target_oid |-> None, path |-> NoPath, visited |-> {}]

FindPathIdle ==
    /\ fp_last = NoSearch
    /\ fp_calls = 0

BfsIdle ==
    /\ bfs_pc = "idle"
    /\ bfs_commit_oid = None
    /\ bfs_target_oid = None
    /\ bfs_merge_base_oid = None
    /\ bfs_queue = <<>>

NoLevel == "NoLevel"

NoResult == "NoResult"

SivIdle ==
    /\ log_max_level = "Off"
    /\ siv_pc = "idle"
    /\ old_max_level = NoLevel
    /\ siv_result = NoResult
    /\ siv_f_steps = 0
    /\ siv_calls = 0
    /\ siv_level_at_call = NoLevel

BackendIdle ==
    /\ events = <<>>
    /\ event_index = 0
    /\ just_emitted_event = FALSE
    /\ screen = <<>>
    /\ screen_targets = <<>>
    /\ polled = <<>>

\* No arguments are on record.
NoArgs == [source |-> "none", base |-> "none", dest |-> "none", head |-> FALSE]

\* No plan has been made; a plan has at least the pick of its source.
NoPlan == [picks |-> {}]

\* move has not returned an exit code.
NoExit == -1

MoveIdle ==
    /\ mv_pc = "idle"
    /\ mv_args = NoArgs
    /\ should_resolve_base_commit = FALSE
    /\ source_oid = None
    /\ event_tx_id = None
    /\ rebase_plan = NoPlan
    /\ mv_exit = NoExit
    /\ event_tx_ids = <<>>
    /\ event_log = {}

\* The parts modelled further below are idle.
LaterIdle == BfsIdle /\ SivIdle /\ BackendIdle /\ MoveIdle

----------------------------------------------------------------------------
(* make_graph *)

GraphInit ==
    /\ parents \in Repos
    /\ main_branch_oid \in Oid
    /\ head_oid = None
    /\ branch_oids = {}
    /\ commit_oids = {}
    /\ graph = EmptyGraph
    /\ walked = EmptyGraph
    /\ remove_commits = FALSE
    /\ pc = "walk"

\* The seed loop of walk_from_commits takes the next seed of commit_oids (the
\* active OIDs of the event log, the branch OIDs and HEAD; the loop does not
\* read which is which). The event replayer is asked for the visibility of a
\* commit at most once, when the commit is inserted: hidden is the set of
\* inserted commits it reports as Hidden.
WalkSeed(commit_oid) ==
    /\ pc = "walk"
    /\ commit_oid \notin commit_oids
    /\ commit_oids' = commit_oids \cup {commit_oid}
    /\ \E hidden \in SUBSET InsertedPrefix(graph, path_to_merge_base(commit_oid)) :
          graph' = walk_seed(graph, commit_oid, hidden)
    /\ UNCHANGED <<parents, main_branch_oid, head_oid, branch_oids, walked,
                   remove_commits, pc>>
    /\ UNCHANGED <<mergeBaseVars, hookVars, findPathVars, laterVars>>

\* The seed loop is over: the links are made and walk_from_commits returns.
LinkParents ==
    /\ pc = "walk"
    /\ graph' = link_parents(graph)
    /\ walked' = graph'
    /\ pc' = "linked"
    /\ UNCHANGED <<parents, main_branch_oid, head_oid, branch_oids, commit_oids,
                   remove_commits>>
    /\ UNCHANGED <<mergeBaseVars, hookVars, findPathVars, laterVars>>

\* make_graph with remove_commits = true: do_remove_commits reads head_oid
\* and branch_oids, which are among the seeds.
RemoveCommits ==
    /\ pc = "linked"
    /\ \E branches \in SUBSET commit_oids :
         \E head \in commit_oids \cup {None} :
            /\ head_oid' = head
            /\ branch_oids' = branches
            /\ graph' = do_remove_commits(graph, head, branches)
    /\ remove_commits' = TRUE
    /\ pc' = "done"
    /\ UNCHANGED <<parents, main_branch_oid, commit_oids, walked>>
    /\ UNCHANGED <<mergeBaseVars, hookVars, findPathVars, laterVars>>

\* make_graph with remove_commits = false.
ReturnGraph ==
    /\ pc = "linked"
    /\ remove_commits' = FALSE
    /\ pc' = "done"
    /\ UNCHANGED <<parents, main_branch_oid, head_oid, branch_oids, commit_oids,
                   graph, walked>>
    /\ UNCHANGED <<mergeBaseVars, hookVars, findPathVars, laterVars>>

Init == GraphInit /\ MergeBaseIdle /\ HookIdle /\ FindPathIdle /\ LaterIdle

Next ==
    \/ \E commit_oid \in Oid : WalkSeed(commit_oid)
    \/ LinkParents
    \/ RemoveCommits
    \/ ReturnGraph

Spec == Init /\ [][Next]_vars

----------------------------------------------------------------------------
(* MergeBaseDb *)

\* Bound on the number of calls of get_merge_base_oid.
MaxCalls == 2

\* The key of a pair of OIDs with lhs_oid <= rhs_oid.
CanonicalPair(a, b) == IF a <= b THEN <<a, b>> ELSE <<b, a>>

\* The rows of merge_base_oids for a pair of OIDs.
RowsFor(a, b) ==
    {r \in merge_base_oids :
        <<r.lhs_oid, r.rhs_oid>> = CanonicalPair(a, b)}

\* MergeBaseDb::new: init_tables has created the table (CREATE TABLE IF NOT
\* EXISTS); nothing in the code inserts into it.
MergeBaseInit ==
    /\ parents \in Repos
    /\ merge_base_oids = {}
    /\ mb_last = NoCall
    /\ mb_returned = {}
    /\ mb_calls = 0

\* One call of get_merge_base_oid(repo, lhs_oid, rhs_oid): it issues
\* repo.merge_base(lhs_oid, rhs_oid), which answers or fails, and maps the
\* outcome; it neither reads nor writes the table. The call touches no shared
\* state, so calls of concurrent invocations interleave as whole steps.
GetMergeBaseOid(lhs_oid, rhs_oid) ==
    /\ mb_calls < MaxCalls
    /\ \E outcome \in {VcsMergeBase(lhs_oid, rhs_oid), GenericError} :
         LET result == get_merge_base_oid_result(outcome)
         IN  /\ mb_last' = [lhs_oid |-> lhs_oid, rhs_oid |-> rhs_oid,
                            outcome |-> outcome.kind,
                            tag |-> result.tag, value |-> result.value,
                            known |-> \E r \in mb_returned :
                                         r.pair = CanonicalPair(lhs_oid, rhs_oid),
                            queried |-> TRUE]
             /\ mb_returned' =
                   IF result.tag = "Ok"
                   THEN mb_returned \cup {[pair |-> CanonicalPair(lhs_oid, rhs_oid),
                                           value |-> result.value]}
                   ELSE mb_returned
    /\ mb_calls' = mb_calls + 1
    /\ UNCHANGED <<parents, merge_base_oids>>
    /\ UNCHANGED <<main_branch_oid, head_oid, branch_oids, commit_oids, graph, walked,
                   remove_commits, pc>>
    /\ UNCHANGED <<hookVars, findPathVars, laterVars>>

MergeBaseNext == \E lhs_oid \in Oid, rhs_oid \in Oid : GetMergeBaseOid(lhs_oid, rhs_oid)

InitMergeBase == MergeBaseInit /\ GraphIdle /\ HookIdle /\ FindPathIdle /\ LaterIdle

SpecMergeBase == InitMergeBase /\ [][MergeBaseNext]_vars

----------------------------------------------------------------------------
(* install_hook *)

\* A text is a sequence of tokens: a newline, one of the three constant
\* strings below (each taken as a whole), or other text.
NL == "\n"

SHEBANG == "#!/bin/sh"

UPDATE_MARKER_START == "## START BRANCHLESS CONFIG"

UPDATE_MARKER_END == "## END BRANCHLESS CONFIG"

OtherText == "x"

\* Bounds on the hook file (in lines), the hook script (in tokens) and the
\* number of installs.
MaxFileLines == 3

MaxScriptLen == 2

MaxInstalls == 2

\* str::lines: the pieces between newlines; a final newline ends the last
\* line and starts no other.
RECURSIVE Lines(_)
Lines(text) ==
    IF text = <<>> THEN <<>>
    ELSE IF \E i \in 1..Len(text) : text[i] = NL
    THEN LET i == CHOOSE i \in 1..Len(text) :
                    text[i] = NL /\ \A j \in 1..(i - 1) : text[j] /= NL
         IN  <<SubSeq(text, 1, i - 1)>> \o Lines(SubSeq(text, i + 1, Len(text)))
    ELSE <<text>>

\* The loop of update_between_lines over the lines of the file.
RECURSIVE update_loop(_, _, _)

\* A loop that copies the END marker line to the output.
update_loop_mut_keep_end(lines, is_ignoring_lines, updated_lines) ==
    IF lines = <<>> THEN <<>>
    ELSE LET line == Head(lines)
         IN  IF line = <<UPDATE_MARKER_START>>
             THEN <<UPDATE_MARKER_START, NL>> \o updated_lines \o <<UPDATE_MARKER_END, NL>>
                    \o update_loop(Tail(lines), TRUE, updated_lines)
             ELSE IF line = <<UPDATE_MARKER_END>>
             THEN <<UPDATE_MARKER_END, NL>> \o update_loop(Tail(lines), FALSE, updated_lines)
             ELSE IF ~is_ignoring_lines
             THEN line \o <<NL>> \o update_loop(Tail(lines), is_ignoring_lines, updated_lines)
             ELSE update_loop(Tail(lines), is_ignoring_lines, updated_lines)

\* A loop that never ignores a line: the old lines between the markers stay.
update_loop_mut_keep_old(lines, is_ignoring_lines, updated_lines) ==
    IF lines = <<>> THEN <<>>
    ELSE LET line == Head(lines)
         IN  IF line = <<UPDATE_MARKER_START>>
             THEN <<UPDATE_MARKER_START, NL>> \o updated_lines \o <<UPDATE_MARKER_END, NL>>
                    \o update_loop(Tail(lines), FALSE, updated_lines)
             ELSE IF line = <<UPDATE_MARKER_END>>
             THEN update_loop(Tail(lines), FALSE, updated_lines)
             ELSE IF ~is_ignoring_lines
             THEN line \o <<NL>> \o update_loop(Tail(lines), is_ignoring_lines, updated_lines)
             ELSE update_loop(Tail(lines), is_ignoring_lines, updated_lines)

update_loop(lines, is_ignoring_lines, updated_lines) ==
    IF lines = <<>> THEN <<>>
    ELSE LET line == Head(lines)
         IN  IF line = <<UPDATE_MARKER_START>>
             THEN <<UPDATE_MARKER_START, NL>> \o updated_lines \o <<UPDATE_MARKER_END, NL>>
                    \o update_loop(Tail(lines), TRUE, updated_lines)
             ELSE IF line = <<UPDATE_MARKER_END>>
             THEN update_loop(Tail(lines), FALSE, updated_lines)
             ELSE IF ~is_ignoring_lines
             THEN line \o <<NL>> \o update_loop(Tail(lines), is_ignoring_lines, updated_lines)
             ELSE update_loop(Tail(lines), is_ignoring_lines, updated_lines)

update_between_lines(lines, updated_lines) ==
    update_loop(Lines(lines), FALSE, updated_lines)

\* update_hook_contents for a RegularHook: the text written to the hook path.
update_hook_contents(file, hook_contents) ==
    IF file = NoFile
    THEN <<SHEBANG, NL, UPDATE_MARKER_START, NL>> \o hook_contents
            \o <<NL, UPDATE_MARKER_END, NL>>
    ELSE update_between_lines(file, hook_contents)

\* All sequences over S of length at most n.
SeqsUpTo(S, n) == UNION {[1..k -> S] : k \in 0..n}

\* The lines an existing hook file is drawn from.
LineChoices == {<<>>, <<OtherText>>, <<UPDATE_MARKER_START>>, <<UPDATE_MARKER_END>>}

\* The text of the given lines, each ended by a newline, the last one only
\* when final_newline.
RECURSIVE Unlines(_, _)
Unlines(lines, final_newline) ==
    IF lines = <<>> THEN <<>>
    ELSE IF Len(lines) = 1 /\ ~final_newline THEN lines[1]
    ELSE lines[1] \o <<NL>> \o Unlines(Tail(lines), final_newline)

HookFiles ==
    {Unlines(ls, nl) : ls \in SeqsUpTo(LineChoices, MaxFileLines), nl \in BOOLEAN}

HookScripts ==
    SeqsUpTo({NL, OtherText, UPDATE_MARKER_START, UPDATE_MARKER_END}, MaxScriptLen)

HookInit ==
    /\ hook_original \in HookFiles \cup {NoFile}
    /\ hook_file = hook_original
    /\ hook_script \in HookScripts
    /\ hook_updates = 0

\* install_hook for a hook type whose hook is a RegularHook.
InstallHook ==
    /\ hook_updates < MaxInstalls
    /\ hook_file' = update_hook_contents(hook_file, hook_script)
    /\ hook_updates' = hook_updates + 1
    /\ UNCHANGED <<hook_original, hook_script>>
    /\ UNCHANGED <<graphVars, mergeBaseVars, findPathVars, laterVars>>

HookNext == InstallHook

HookGraphIdle == parents = [o \in Oid |-> <<>>] /\ GraphIdle

InitHook == HookInit /\ HookGraphIdle /\ MergeBaseIdle /\ FindPathIdle /\ LaterIdle

SpecHook == InitHook /\ [][HookNext]_vars

----------------------------------------------------------------------------
(* find_path_to_merge_base *)

\* Bound on the number of calls of find_path_to_merge_base_internal.
MaxSearches == 2

FindPathInit ==
    /\ parents \in Repos
    /\ fp_last = NoSearch
    /\ fp_calls = 0

\* One call of find_path_to_merge_base_internal(repo, merge_base_db,
\* commit_oid, target_oid, callback) that the VCS does not fail: the path it
\* returns and the OIDs the callback has been given.
FindPath(commit_oid, target_oid) ==
    /\ fp_calls < MaxSearches
    /\ fp_last' = [commit_oid |-> commit_oid, target_oid |-> target_oid,
                   path |-> find_path_to_merge_base(commit_oid, target_oid),
                   visited |-> visited_commits(commit_oid, target_oid)]
    /\ fp_calls' = fp_calls + 1
    /\ UNCHANGED parents
    /\ UNCHANGED <<main_branch_oid, head_oid, branch_oids, commit_oids, graph, walked,
                   remove_commits, pc>>
    /\ UNCHANGED <<mergeBaseVars, hookVars, laterVars>>

FindPathNext == \E commit_oid \in Oid, target_oid \in Oid : FindPath(commit_oid, target_oid)

InitFindPath == FindPathInit /\ GraphIdle /\ MergeBaseIdle /\ HookIdle /\ LaterIdle

SpecFindPath == InitFindPath /\ [][FindPathNext]_vars

----------------------------------------------------------------------------
(* find_path_to_merge_base_internal, one iteration of its loop at a time *)

\* An iteration that leaves a path that ends at the merge-base in the queue.
bfs_iteration_mut_no_pop(queue, target_oid, merge_base_oid) ==
    IF queue = <<>> THEN [pc |-> "none", queue |-> <<>>]
    ELSE LET path == Head(queue)
             last_commit == path[Len(path)]
         IN  IF last_commit = target_oid THEN [pc |-> "found", queue |-> <<path>>]
             ELSE IF last_commit = merge_base_oid THEN [pc |-> "loop", queue |-> queue]
             ELSE [pc |-> "loop",
                   queue |-> Tail(queue) \o [i \in 1..Len(parents[last_commit]) |->
                                                Append(path, parents[last_commit][i])]]

\* One evaluation of `while let Some(path) = queue.pop_front()` and of the
\* loop body: where the function is afterwards, and its queue.
bfs_iteration(queue, target_oid, merge_base_oid) ==
    IF queue = <<>> THEN [pc |-> "none", queue |-> <<>>]
    ELSE LET path == Head(queue)
             last_commit == path[Len(path)]
         IN  IF last_commit = target_oid THEN [pc |-> "found", queue |-> <<path>>]
             ELSE IF last_commit = merge_base_oid THEN [pc |-> "loop", queue |-> Tail(queue)]
             ELSE [pc |-> "loop",
                   queue |-> Tail(queue) \o [i \in 1..Len(parents[last_commit]) |->
                                                Append(path, parents[last_commit][i])]]

BfsInit ==
    /\ parents \in Repos
    /\ BfsIdle

\* The function is entered: the queue holds the path of commit_oid alone and
\* the merge-base has been asked for.
BfsEnter(commit_oid, target_oid) ==
    /\ bfs_pc = "idle"
    /\ bfs_pc' = "loop"
    /\ bfs_commit_oid' = commit_oid
    /\ bfs_target_oid' = target_oid
    /\ bfs_merge_base_oid' = get_merge_base_oid(commit_oid, target_oid)
    /\ bfs_queue' = <<(<<commit_oid>>)>>
    /\ UNCHANGED <<graphVars, mergeBaseVars, hookVars, findPathVars, sivVars, backendVars, moveVars>>

\* One iteration of the loop, or its end with Ok(None) when the queue is empty.
BfsIterate ==
    /\ bfs_pc = "loop"
    /\ LET next == bfs_iteration(bfs_queue, bfs_target_oid, bfs_merge_base_oid)
       IN  /\ bfs_pc' = next.pc
           /\ bfs_queue' = next.queue
    /\ UNCHANGED <<bfs_commit_oid, bfs_target_oid, bfs_merge_base_oid>>
    /\ UNCHANGED <<graphVars, mergeBaseVars, hookVars, findPathVars, sivVars, backendVars, moveVars>>

BfsNext ==
    \/ \E commit_oid \in Oid, target_oid \in Oid : BfsEnter(commit_oid, target_oid)
    \/ BfsIterate

InitBfs == BfsInit /\ GraphIdle /\ MergeBaseIdle /\ HookIdle /\ FindPathIdle
               /\ SivIdle /\ BackendIdle /\ MoveIdle

\* The function, once entered, keeps running: its loop is not suspended.
SpecBfs == InitBfs /\ [][BfsNext]_vars /\ WF_vars(BfsIterate)

----------------------------------------------------------------------------
(* with_siv *)

\* log::LevelFilter
LevelFilter == {"Off", "Error", "Warn", "Info", "Debug", "Trace"}

\* How many steps the callback f runs at most.
MaxCallbackSteps == 3

\* How many times with_siv is called at most.
MaxSivCalls == 2

\* A restoration that happens only when f returned Ok.
restored_max_level_mut_ok_only(old, result) ==
    IF result = "Ok" THEN old ELSE "Off"

\* The level `log::set_max_level(old_max_level)` sets after f returned
\* `result`: the call comes before `result?`, so it does not depend on it.
restored_max_level(old, result) == old

WithSivInit ==
    /\ log_max_level \in LevelFilter
    /\ siv_pc = "idle"
    /\ old_max_level = NoLevel
    /\ siv_result = NoResult
    /\ siv_f_steps = 0
    /\ siv_calls = 0
    /\ siv_level_at_call = NoLevel

\* with_siv up to the call of f: the level is saved and set to Off.
WithSivEnter ==
    /\ siv_pc \in {"idle", "returned"}
    /\ siv_calls < MaxSivCalls
    /\ siv_pc' = "in_f"
    /\ old_max_level' = log_max_level
    /\ log_max_level' = "Off"
    /\ siv_result' = NoResult
    /\ siv_f_steps' = 0
    /\ siv_calls' = siv_calls + 1
    /\ siv_level_at_call' = log_max_level
    /\ UNCHANGED <<graphVars, mergeBaseVars, hookVars, findPathVars, bfsVars, backendVars, moveVars>>

\* f runs one step; it does not touch the log level.
CallbackStep ==
    /\ siv_pc = "in_f"
    /\ siv_f_steps < MaxCallbackSteps
    /\ siv_f_steps' = siv_f_steps + 1
    /\ UNCHANGED <<log_max_level, siv_pc, old_max_level, siv_result, siv_calls,
                   siv_level_at_call>>
    /\ UNCHANGED <<graphVars, mergeBaseVars, hookVars, findPathVars, bfsVars, backendVars, moveVars>>

\* f returns `result`; with_siv restores the level and returns.
WithSivReturn(result) ==
    /\ siv_pc = "in_f"
    /\ siv_pc' = "returned"
    /\ siv_result' = result
    /\ log_max_level' = restored_max_level(old_max_level, result)
    /\ UNCHANGED <<old_max_level, siv_f_steps, siv_calls, siv_level_at_call>>
    /\ UNCHANGED <<graphVars, mergeBaseVars, hookVars, findPathVars, bfsVars, backendVars, moveVars>>

\* f panics: with_siv is unwound at the call of f and restores nothing.
WithSivUnwind ==
    /\ siv_pc = "in_f"
    /\ siv_pc' = "unwound"
    /\ UNCHANGED <<log_max_level, old_max_level, siv_result, siv_f_steps, siv_calls,
                   siv_level_at_call>>
    /\ UNCHANGED <<graphVars, mergeBaseVars, hookVars, findPathVars, bfsVars, backendVars, moveVars>>

WithSivNext ==
    \/ WithSivEnter
    \/ CallbackStep
    \/ \E result \in {"Ok", "Err"} : WithSivReturn(result)
    \/ WithSivUnwind

InitWithSiv == WithSivInit /\ HookGraphIdle /\ MergeBaseIdle /\ HookIdle /\ FindPathIdle
                   /\ BfsIdle /\ BackendIdle /\ MoveIdle

SpecWithSiv == InitWithSiv /\ [][WithSivNext]_vars

----------------------------------------------------------------------------
(* CursiveTestingBackend *)

\* Bound on the length of the list of events the backend is constructed with.
MaxEvents == 3

\* Bound on the number of calls of poll_event.
MaxPolls == 6

\* The width of the one row of the screen (120 columns and 24 rows in init).
ScreenWidth == 1

\* The cursive events the list may hold.
CursiveEvents == {"Enter", "Esc"}

\* The screenshot cells the list may refer to.
Cells == {"cell1", "cell2"}

\* poll_event returned None.
NoEvent == "None"

NoCell == "NoCell"

\* What a screenshot cell holds before a screenshot was stored in it.
NoScreen == <<>>

\* CursiveTestingEvent
CursiveTestingEvent ==
    {[kind |-> "Event", event |-> e, screen_target |-> NoCell] : e \in CursiveEvents}
    \cup {[kind |-> "TakeScreenshot", event |-> NoEvent, screen_target |-> c] : c \in Cells}

\* `vec![' '; 120]`, and what clear leaves.
BlankScreen == [j \in 1..ScreenWidth |-> " "]

\* The texts Cursive prints.
Texts == {[i \in 1..n |-> "x"] : n \in 1..(ScreenWidth + 1)}

\* print_at on the row: the characters that fit are written at x, x+1, ...;
\* every character that does not fit writes '$' into the last column.
print_at(s, x, text) ==
    [j \in 1..ScreenWidth |->
        IF j = ScreenWidth /\ x + Len(text) > ScreenWidth THEN "$"
        ELSE IF j - 1 >= x /\ j - 1 < x + Len(text) THEN text[j - x]
        ELSE s[j]]

RECURSIVE poll_event_mut_no_pause(_, _, _)
\* A poll_event that does not remember that it has just returned an event.
poll_event_mut_no_pause(index, just_emitted, targets) ==
    IF just_emitted
    THEN [result |-> NoEvent, event_index |-> index, just_emitted_event |-> FALSE,
          screen_targets |-> targets]
    ELSE IF index + 1 > Len(events)
    THEN [result |-> NoEvent, event_index |-> index + 1, just_emitted_event |-> FALSE,
          screen_targets |-> targets]
    ELSE LET entry == events[index + 1]
         IN  IF entry.kind = "TakeScreenshot"
             THEN poll_event_mut_no_pause(index + 1, FALSE,
                                          [targets EXCEPT ![entry.screen_target] = screen])
             ELSE [result |-> entry.event, event_index |-> index + 1,
                   just_emitted_event |-> FALSE, screen_targets |-> targets]

RECURSIVE poll_event(_, _, _)
\* poll_event on a backend with the given event_index and just_emitted_event
\* and the given contents of the screenshot cells: what it returns and what
\* it leaves in those fields and cells. `self.events.get(event_index)?`
\* returns None after event_index was incremented; a TakeScreenshot entry
\* stores the screen and polls again.
poll_event(index, just_emitted, targets) ==
    IF just_emitted
    THEN [result |-> NoEvent, event_index |-> index, just_emitted_event |-> FALSE,
          screen_targets |-> targets]
    ELSE IF index + 1 > Len(events)
    THEN [result |-> NoEvent, event_index |-> index + 1, just_emitted_event |-> FALSE,
          screen_targets |-> targets]
    ELSE LET entry == events[index + 1]
         IN  IF entry.kind = "TakeScreenshot"
             THEN poll_event(index + 1, FALSE,
                             [targets EXCEPT ![entry.screen_target] = screen])
             ELSE [result |-> entry.event, event_index |-> index + 1,
                   just_emitted_event |-> TRUE, screen_targets |-> targets]

\* CursiveTestingBackend::init(events)
BackendInit ==
    /\ events \in UNION {[1..n -> CursiveTestingEvent] : n \in 0..MaxEvents}
    /\ event_index = 0
    /\ just_emitted_event = FALSE
    /\ screen = BlankScreen
    /\ screen_targets = [c \in Cells |-> NoScreen]
    /\ polled = <<>>

\* Cursive polls the backend.
PollEvent ==
    /\ Len(polled) < MaxPolls
    /\ LET r == poll_event(event_index, just_emitted_event, screen_targets)
       IN  /\ event_index' = r.event_index
           /\ just_emitted_event' = r.just_emitted_event
           /\ screen_targets' = r.screen_targets
           /\ polled' = Append(polled, r.result)
    /\ UNCHANGED <<events, screen>>
    /\ UNCHANGED <<graphVars, mergeBaseVars, hookVars, findPathVars, bfsVars, sivVars, moveVars>>

\* Cursive prints a text on the row.
PrintAt(x, text) ==
    /\ screen' = print_at(screen, x, text)
    /\ UNCHANGED <<events, event_index, just_emitted_event, screen_targets, polled>>
    /\ UNCHANGED <<graphVars, mergeBaseVars, hookVars, findPathVars, bfsVars, sivVars, moveVars>>

\* Cursive clears the screen.
Clear ==
    /\ screen' = BlankScreen
    /\ UNCHANGED <<events, event_index, just_emitted_event, screen_targets, polled>>
    /\ UNCHANGED <<graphVars, mergeBaseVars, hookVars, findPathVars, bfsVars, sivVars, moveVars>>

BackendNext ==
    \/ PollEvent
    \/ \E x \in 0..(ScreenWidth - 1), text \in Texts : PrintAt(x, text)
    \/ Clear

InitBackend == BackendInit /\ HookGraphIdle /\ MergeBaseIdle /\ HookIdle /\ FindPathIdle
                   /\ BfsIdle /\ SivIdle /\ MoveIdle

SpecBackend == InitBackend /\ [][BackendNext]_vars

----------------------------------------------------------------------------
(* move *)

\* Bound on the transaction ids the event log hands out.
MaxTxId == 2

RECURSIVE resolve_base_commit_mut_to_main(_, _)
\* A resolution that steps onto the main parent.
resolve_base_commit_mut_to_main(g, oid) ==
    IF g[oid].is_main THEN oid
    ELSE IF g[oid].parent /= None
         THEN IF g[g[oid].parent].is_main THEN g[oid].parent
              ELSE resolve_base_commit_mut_to_main(g, g[oid].parent)
         ELSE oid

RECURSIVE resolve_base_commit(_, _)
\* resolve_base_commit(graph, oid); `graph[&oid]` panics for a missing key,
\* as g[oid] is an error here.
resolve_base_commit(g, oid) ==
    IF g[oid].is_main THEN oid
    ELSE IF g[oid].parent /= None
         THEN IF g[g[oid].parent].is_main THEN oid
              ELSE resolve_base_commit(g, g[oid].parent)
         ELSE oid

\* A transaction name other than the one move passes.
transaction_name_mut_rebase == "rebase"

\* The name move passes to make_transaction_id.
transaction_name == "move"

\* An argument is absent, names a commit, or names nothing in the repository.
ArgKinds == {"absent", "commit", "unknown"}

\* The --source, --base and --dest arguments, and whether HEAD has an OID.
MoveArgs == [source : ArgKinds, base : ArgKinds, dest : ArgKinds, head : BOOLEAN]

\* move up to and including resolve_commits: the first of its exits that
\* the arguments take. The OID of HEAD, used as a default, names a commit.
parse_outcome(args) ==
    IF args.source /= "absent" /\ args.base /= "absent" THEN "returned"
    ELSE IF args.source = "absent" /\ args.base = "absent" /\ ~args.head THEN "panicked"
    ELSE IF args.dest = "absent" /\ ~args.head THEN "panicked"
    ELSE IF "unknown" \in {args.source, args.base, args.dest} THEN "returned"
    ELSE "resolved"

RECURSIVE subtree(_, _)
\* The subtree make_rebase_plan moves: source_oid and every descendant
\* reachable through the children links of the graph.
subtree(g, oid) ==
    {oid} \cup UNION {subtree(g, c) : c \in (g[oid].children \cap Keys(g))}

\* The plan: a Pick for each commit of the subtree.
make_rebase_plan(g, oid) == [picks |-> subtree(g, oid)]

\* The rewrite events the hooks record while the plan is executed with the
\* given transaction id and the picks in `applied` are applied.
rewrite_events(tx_id, applied) == {[tx_id |-> tx_id, old_oid |-> o] : o \in applied}

MoveInit ==
    /\ parents \in Repos
    /\ mv_pc = "start"
    /\ mv_args = NoArgs
    /\ should_resolve_base_commit = FALSE
    /\ source_oid = None
    /\ event_tx_id = None
    /\ rebase_plan = NoPlan
    /\ mv_exit = NoExit
    /\ event_tx_ids = <<>>
    /\ event_log = {}

\* move from its start to the result of resolve_commits. A move that goes on
\* reads its locals later: source_oid when make_graph is given HEAD,
\* should_resolve_base_commit after make_graph.
MoveParseArgs(args) ==
    /\ mv_pc = "start"
    /\ mv_pc' = parse_outcome(args)
    /\ mv_args' = IF parse_outcome(args) = "resolved" THEN NoArgs ELSE args
    /\ mv_exit' = IF parse_outcome(args) = "returned" THEN 1 ELSE NoExit
    /\ UNCHANGED <<should_resolve_base_commit, source_oid, event_tx_id, rebase_plan,
                   event_tx_ids, event_log>>
    /\ UNCHANGED <<graphVars, mergeBaseVars, hookVars, findPathVars, bfsVars, sivVars,
                   backendVars>>

\* The main branch OID is read and make_graph is entered.
MoveEnterMakeGraph ==
    /\ mv_pc = "resolved"
    /\ mv_pc' = "make_graph"
    /\ main_branch_oid' \in Oid
    /\ pc' = "walk"
    /\ UNCHANGED <<parents, head_oid, branch_oids, commit_oids, graph, walked,
                   remove_commits>>
    /\ UNCHANGED <<mv_args, should_resolve_base_commit, source_oid, event_tx_id,
                   rebase_plan, mv_exit, event_tx_ids, event_log>>
    /\ UNCHANGED <<mergeBaseVars, hookVars, findPathVars, bfsVars, sivVars, backendVars>>

\* make_graph with HeadOid(Some(source_oid)), all branch OIDs and
\* remove_commits = true: do_remove_commits, and make_graph returns. With
\* the return its set of seeds, its branch OIDs and the graph as it was
\* before the removal are gone; head_oid keeps the source_oid it was given.
MoveRemoveCommits ==
    /\ mv_pc = "make_graph"
    /\ pc = "linked"
    /\ \E head \in commit_oids :
         \E branches \in SUBSET commit_oids :
            /\ head_oid' = head
            /\ source_oid' = head
            /\ graph' = do_remove_commits(graph, head, branches)
    /\ branch_oids' = {}
    /\ commit_oids' = {}
    /\ walked' = EmptyGraph
    /\ remove_commits' = TRUE
    /\ pc' = "done"
    /\ mv_pc' = "graph"
    /\ UNCHANGED <<parents, main_branch_oid>>
    /\ UNCHANGED <<mv_args, should_resolve_base_commit, event_tx_id, rebase_plan,
                   mv_exit, event_tx_ids, event_log>>
    /\ UNCHANGED <<mergeBaseVars, hookVars, findPathVars, bfsVars, sivVars, backendVars>>

\* `if should_resolve_base_commit { resolve_base_commit(&graph, source_oid) }`
MoveResolveBase(should_resolve) ==
    /\ mv_pc = "graph"
    /\ mv_pc' = "base"
    /\ should_resolve_base_commit' = should_resolve
    /\ source_oid' = IF should_resolve THEN resolve_base_commit(graph, source_oid)
                     ELSE source_oid
    /\ UNCHANGED <<mv_args, event_tx_id, rebase_plan, mv_exit, event_tx_ids, event_log>>
    /\ UNCHANGED <<graphVars, mergeBaseVars, hookVars, findPathVars, bfsVars, sivVars,
                   backendVars>>

\* `event_log_db.make_transaction_id(now, "move")`: the event log hands out
\* its next transaction id.
MoveMakeTransactionId(tx_id) ==
    /\ mv_pc = "base"
    /\ mv_pc' = "tx"
    /\ event_tx_id' = tx_id
    /\ event_tx_ids' = Append(event_tx_ids, [id |-> tx_id, name |-> transaction_name])
    /\ UNCHANGED <<mv_args, should_resolve_base_commit, source_oid, rebase_plan, mv_exit,
                   event_log>>
    /\ UNCHANGED <<graphVars, mergeBaseVars, hookVars, findPathVars, bfsVars, sivVars,
                   backendVars>>

\* make_rebase_plan returns a plan.
MoveMakeRebasePlan ==
    /\ mv_pc = "tx"
    /\ mv_pc' = "plan"
    /\ rebase_plan' = make_rebase_plan(graph, source_oid)
    /\ UNCHANGED <<mv_args, should_resolve_base_commit, source_oid, event_tx_id, mv_exit,
                   event_tx_ids, event_log>>
    /\ UNCHANGED <<graphVars, mergeBaseVars, hookVars, findPathVars, bfsVars, sivVars,
                   backendVars>>

\* make_rebase_plan returns an error, which move returns.
MoveMakeRebasePlanFails ==
    /\ mv_pc = "tx"
    /\ mv_pc' = "failed"
    /\ UNCHANGED <<mv_args, should_resolve_base_commit, source_oid, event_tx_id,
                   rebase_plan, mv_exit, event_tx_ids, event_log>>
    /\ UNCHANGED <<graphVars, mergeBaseVars, hookVars, findPathVars, bfsVars, sivVars,
                   backendVars>>

\* execute_rebase_plan with event_tx_id applies every pick and returns 0, and
\* move returns that.
MoveExecuteRebasePlan ==
    /\ mv_pc = "plan"
    /\ mv_pc' = "returned"
    /\ event_log' = event_log \cup rewrite_events(event_tx_id, rebase_plan.picks)
    /\ mv_exit' = 0
    /\ UNCHANGED <<mv_args, should_resolve_base_commit, source_oid, event_tx_id,
                   rebase_plan, event_tx_ids>>
    /\ UNCHANGED <<graphVars, mergeBaseVars, hookVars, findPathVars, bfsVars, sivVars,
                   backendVars>>

\* execute_rebase_plan halts at the pick `conflicted`, having applied the
\* picks before it, and returns the exit code of the VCS, which move returns.
MoveExecuteRebasePlanHalts(conflicted) ==
    /\ mv_pc = "plan"
    /\ conflicted \in rebase_plan.picks
    /\ mv_pc' = "returned"
    /\ event_log' = event_log
                      \cup rewrite_events(event_tx_id,
                                          {o \in rebase_plan.picks : o < conflicted})
    /\ mv_exit' = 1
    /\ UNCHANGED <<mv_args, should_resolve_base_commit, source_oid, event_tx_id,
                   rebase_plan, event_tx_ids>>
    /\ UNCHANGED <<graphVars, mergeBaseVars, hookVars, findPathVars, bfsVars, sivVars,
                   backendVars>>

MoveNext ==
    \/ \E args \in MoveArgs : MoveParseArgs(args)
    \/ MoveEnterMakeGraph
    \/ \E commit_oid \in Oid : WalkSeed(commit_oid)
    \/ LinkParents
    \/ MoveRemoveCommits
    \/ \E should_resolve \in BOOLEAN : MoveResolveBase(should_resolve)
    \/ \E tx_id \in 1..MaxTxId : MoveMakeTransactionId(tx_id)
    \/ MoveMakeRebasePlan
    \/ MoveMakeRebasePlanFails
    \/ MoveExecuteRebasePlan
    \/ \E conflicted \in Oid : MoveExecuteRebasePlanHalts(conflicted)

InitMove == MoveInit /\ GraphIdle /\ MergeBaseIdle /\ HookIdle /\ FindPathIdle
                /\ BfsIdle /\ SivIdle /\ BackendIdle

SpecMove == InitMove /\ [][MoveNext]_vars

----------------------------------------------------------------------------
(* Properties of the graph make_graph returns *)

Returned == pc = "done"

Pruned == pc = "done" /\ remove_commits

Removed == Keys(walked) \ Keys(graph)

\* HEAD (when present) and the branch OIDs.
Anchors == branch_oids \cup (IF head_oid = None THEN {} ELSE {head_oid})

\* A node and everything below it through children links.
RECURSIVE Descendants(_, _)
Descendants(g, oid) == {oid} \cup UNION {Descendants(g, c) : c \in g[oid].children}

\* C1: in every graph make_graph returns (pruned or not), a node's parent is
\* a key of the graph and has the node among its children.
C1_ParentClosed ==
    Returned =>
        \A n \in Keys(graph) :
            graph[n].parent /= None =>
                /\ graph[n].parent \in Keys(graph)
                /\ n \in graph[graph[n].parent].children

\* C1's case: pruning removed a node and left a node that has a parent.
C1_Witness ==
    /\ Pruned
    /\ Removed /= {}
    /\ \E n \in Keys(graph) : graph[n].parent /= None

\* C2: in every graph make_graph returns, every child listed in a node's
\* children is a key of the graph and has that node as its parent.
C2_ChildrenInverse ==
    Returned =>
        \A p \in Keys(graph) :
            \A c \in graph[p].children :
                c \in Keys(graph) /\ graph[c].parent = p

\* C3: after make_graph with remove_commits = true every branch OID and the
\* head OID is a node of the graph.
C3_AnchorsKept ==
    Pruned =>
        /\ branch_oids \subseteq Keys(graph)
        /\ head_oid /= None => head_oid \in Keys(graph)

\* C3's case: HEAD and a branch OID are hidden commits, and pruning removed
\* another node.
C3_Witness ==
    /\ Pruned
    /\ head_oid /= None /\ head_oid \in Keys(walked) /\ ~walked[head_oid].is_visible
    /\ \E b \in branch_oids : b \in Keys(walked) /\ ~walked[b].is_visible
    /\ Removed /= {}

\* C4: pruning removes a non-main node exactly when it is not HEAD or a
\* branch OID, is not visible and all its children are removed; so a visible
\* non-main node stays, and so does every node above a HEAD/branch node.
C4_NonMainPruning ==
    Pruned =>
        /\ \A x \in Keys(walked) :
              ~walked[x].is_main =>
                (x \in Removed <=>
                    /\ x \notin Anchors
                    /\ ~walked[x].is_visible
                    /\ walked[x].children \subseteq Removed)
        /\ \A x \in Keys(walked) :
              (~walked[x].is_main /\ walked[x].is_visible) => x \in Keys(graph)
        /\ \A x \in Keys(walked) :
              (Descendants(walked, x) \cap Anchors /= {})
                  => x \in Keys(graph)

\* C4's case: pruning removed a non-main node that has children.
C4_Witness ==
    /\ Pruned
    /\ \E x \in Removed : ~walked[x].is_main /\ walked[x].children /= {}

----------------------------------------------------------------------------
(* Properties of get_merge_base_oid *)

Called == mb_last /= NoCall

\* C6: unless the VCS fails, get_merge_base_oid(a, b) returns the VCS
\* merge-base of a and b (None when there is none), which is also what it
\* returns for (b, a), after any earlier calls.
C6_MergeBaseCorrect ==
    (Called /\ mb_last.outcome /= "Generic") =>
        /\ mb_last.tag = "Ok"
        /\ mb_last.value = VcsMergeBase(mb_last.lhs_oid, mb_last.rhs_oid).oid
        /\ mb_last.value = VcsMergeBase(mb_last.rhs_oid, mb_last.lhs_oid).oid
        /\ \A r \in mb_returned :
              r.pair = CanonicalPair(mb_last.lhs_oid, mb_last.rhs_oid)
                  => r.value = mb_last.value

\* C6's case: a later call, for a pair given in descending order that was
\* asked before, returns None for two commits without a common ancestor.
C6_Witness ==
    /\ Called
    /\ mb_calls = MaxCalls
    /\ mb_last.known
    /\ mb_last.lhs_oid > mb_last.rhs_oid
    /\ mb_last.tag = "Ok" /\ mb_last.value = None

\* C7: a call for a pair that a call has returned Ok for before issues no
\* merge-base query to the VCS.
C7_NoSecondQuery ==
    (Called /\ mb_last.known) => ~mb_last.queried

\* C8: on NotFound the call returns None and a row with a null merge-base is
\* stored for the pair; on another error it returns an error and no row is
\* stored for the pair.
C8_NotFoundCached ==
    Called =>
        /\ mb_last.outcome = "NotFound" =>
              /\ mb_last.tag = "Ok" /\ mb_last.value = None
              /\ \E r \in RowsFor(mb_last.lhs_oid, mb_last.rhs_oid) :
                    r.merge_base_oid = None
        /\ mb_last.outcome = "Generic" =>
              /\ mb_last.tag = "Err"
              /\ RowsFor(mb_last.lhs_oid, mb_last.rhs_oid) = {}

\* C9: when two invocations for the same pair have both returned, the table
\* holds exactly one row for the pair, and both returned the same value.
C9_OneRowPerPair ==
    (Called /\ mb_last.known /\ mb_last.tag = "Ok") =>
        /\ Cardinality(RowsFor(mb_last.lhs_oid, mb_last.rhs_oid)) = 1
        /\ \A r \in mb_returned :
              r.pair = CanonicalPair(mb_last.lhs_oid, mb_last.rhs_oid)
                  => r.value = mb_last.value

----------------------------------------------------------------------------
(* Properties of update_between_lines *)

\* A script that is empty or ends in a newline and has no line that is one
\* of the two marker lines.
WellFormedScript(script) ==
    /\ script = <<>> \/ script[Len(script)] = NL
    /\ \A i \in 1..Len(Lines(script)) :
          Lines(script)[i] \notin {<<UPDATE_MARKER_START>>, <<UPDATE_MARKER_END>>}

\* The hook file existed and has been updated at least twice with the script.
UpdatedTwice == hook_original /= NoFile /\ hook_updates >= 2

MarkerLines(text, marker) == {i \in 1..Len(Lines(text)) : Lines(text)[i] = <<marker>>}

\* The block of a script: the START line, the script, the END line.
Block(script) == <<UPDATE_MARKER_START, NL>> \o script \o <<UPDATE_MARKER_END, NL>>

\* The text has the block somewhere in it.
ContainsBlock(text, block) ==
    \E i \in 1..(Len(text) - Len(block) + 1) : SubSeq(text, i, i + Len(block) - 1) = block

\* C11: when the existing hook file has neither marker line, the first update
\* puts the START line, the script and the END line into the file, and a
\* second update with the same script leaves the file as the first left it.
C11_InsertsWhenAbsent ==
    (/\ hook_original /= NoFile
     /\ MarkerLines(hook_original, UPDATE_MARKER_START) = {}
     /\ MarkerLines(hook_original, UPDATE_MARKER_END) = {}
     /\ hook_updates >= 1) =>
        /\ ContainsBlock(hook_file, Block(hook_script))
        /\ hook_file = update_between_lines(hook_original, hook_script)

\* C12: for a file with one START line and, later, one END line, the update
\* gives the lines before START, the START line, the script, the END line
\* and the lines after END; the old lines between the markers are gone.
C12_ReplacesBetween ==
    (/\ hook_original /= NoFile
     /\ hook_updates = 1
     /\ Cardinality(MarkerLines(hook_original, UPDATE_MARKER_START)) = 1
     /\ Cardinality(MarkerLines(hook_original, UPDATE_MARKER_END)) = 1) =>
        LET ls == Lines(hook_original)
            i == CHOOSE i \in MarkerLines(hook_original, UPDATE_MARKER_START) : TRUE
            j == CHOOSE j \in MarkerLines(hook_original, UPDATE_MARKER_END) : TRUE
        IN  i < j =>
              hook_file = Unlines(SubSeq(ls, 1, i - 1), TRUE)
                            \o Block(hook_script)
                            \o Unlines(SubSeq(ls, j + 1, Len(ls)), TRUE)

\* C12's case: a file with a line of text between its START line and its END
\* line has been updated with a script of text.
C12_Witness ==
    /\ hook_updates = 1
    /\ hook_original = <<UPDATE_MARKER_START, NL, OtherText, NL, UPDATE_MARKER_END, NL>>
    /\ hook_script = <<OtherText, NL>>
    /\ hook_file = <<UPDATE_MARKER_START, NL, OtherText, NL, UPDATE_MARKER_END, NL>>

\* C13: after a first install that created the hook file, a second install
\* with the same script leaves the file as the first install wrote it.
C13_ReinstallUnchanged ==
    (hook_original = NoFile /\ hook_updates >= 2) =>
        hook_file = update_hook_contents(NoFile, hook_script)

----------------------------------------------------------------------------
(* Properties of find_path_to_merge_base *)

Searched == fp_last /= NoSearch

Min(S) == CHOOSE x \in S : \A y \in S : x <= y

\* The number of commits of the shortest chain of VCS parent links from
\* commit c to its ancestor t.
RECURSIVE ChainLen(_, _)
ChainLen(c, t) ==
    IF c = t THEN 1
    ELSE 1 + Min({ChainLen(p, t) : p \in {q \in Range(parents[c]) : t \in Ancestors(q)}})

\* C14: when target_oid is a strict descendant of commit_oid, the search
\* returns None and the callback has been given commit_oid and nothing else.
C14_StopsAtMergeBase ==
    (/\ Searched
     /\ fp_last.commit_oid \in Ancestors(fp_last.target_oid)
     /\ fp_last.commit_oid /= fp_last.target_oid) =>
        /\ fp_last.path = NoPath
        /\ fp_last.visited = {fp_last.commit_oid}

\* C14's case: a search from a commit that has a parent to a child of it.
C14_Witness ==
    /\ Searched
    /\ parents[fp_last.commit_oid] /= <<>>
    /\ fp_last.commit_oid \in Range(parents[fp_last.target_oid])
    /\ fp_last.path = NoPath

\* C15: the search returns a path exactly when target_oid is commit_oid or
\* an ancestor of it; the path starts with commit_oid, ends with target_oid
\* and each commit after the first is a VCS parent of the one before it.
C15_PathIffAncestor ==
    Searched =>
        LET path == fp_last.path
        IN  /\ path /= NoPath <=> fp_last.target_oid \in Ancestors(fp_last.commit_oid)
            /\ path /= NoPath =>
                  /\ path[1] = fp_last.commit_oid
                  /\ path[Len(path)] = fp_last.target_oid
                  /\ \A i \in 1..(Len(path) - 1) : path[i + 1] \in Range(parents[path[i]])

\* C15's case: the search from a merge commit returned a path that leaves
\* the merge commit through its second parent.
C15_Witness ==
    /\ Searched
    /\ Len(parents[fp_last.commit_oid]) = 2
    /\ fp_last.path /= NoPath
    /\ Len(fp_last.path) >= 2
    /\ fp_last.path[2] = parents[fp_last.commit_oid][2]
    /\ fp_last.target_oid \notin Ancestors(parents[fp_last.commit_oid][1])

\* C16: a returned path has as few commits as any chain of VCS parent links
\* from commit_oid to target_oid.
C16_ShortestPath ==
    (Searched /\ fp_last.path /= NoPath) =>
        Len(fp_last.path) = ChainLen(fp_last.commit_oid, fp_last.target_oid)

\* C16's case: the search from a merge commit whose first parent leads to
\* the target by a longer chain than the returned path.
C16_Witness ==
    /\ Searched
    /\ fp_last.path /= NoPath
    /\ Len(parents[fp_last.commit_oid]) = 2
    /\ fp_last.target_oid \in Ancestors(parents[fp_last.commit_oid][1])
    /\ 1 + ChainLen(parents[fp_last.commit_oid][1], fp_last.target_oid) > Len(fp_last.path)

----------------------------------------------------------------------------
(* Properties of the graph make_graph returns, continued *)

\* walk_from_commits has returned: walked is the unpruned graph.
Walked == pc \in {"linked", "done"}

\* The commit has a common ancestor with the main branch commit. A node has
\* one exactly when the seed it was inserted for has one: the node lies on
\* the path from that seed to the seed's merge-base.
HasMergeBase(oid) == Ancestors(oid) \cap Ancestors(main_branch_oid) /= {}

\* Where following the parent links of g from oid ends: at the first main
\* node, at a node without a parent, or at None when a parent is not in g.
RECURSIVE ParentChainEnd(_, _)
ParentChainEnd(g, oid) ==
    IF oid \notin Keys(g) THEN None
    ELSE IF g[oid].is_main \/ g[oid].parent = None THEN oid
    ELSE ParentChainEnd(g, g[oid].parent)

\* C17: in every graph make_graph returns, the parent links from a non-main
\* node that has a merge-base with the main branch lead, through nodes of
\* the graph, to a main node.
C17_BaseIsMain ==
    Returned =>
        \A n \in Keys(graph) :
            (~graph[n].is_main /\ HasMergeBase(n)) =>
                LET base == ParentChainEnd(graph, n)
                IN  base /= None /\ graph[base].is_main

\* C18: every node of a graph make_graph returns is a seed or a VCS ancestor
\* of a seed.
C18_ReachableFromSeeds ==
    Returned =>
        \A n \in Keys(graph) : \E seed \in commit_oids : n \in Ancestors(seed)

\* C18's case: the returned graph has a node that is not a seed, and the
\* repository has a commit that no seed descends from.
C18_Witness ==
    /\ Returned
    /\ Keys(graph) \ commit_oids /= {}
    /\ \E c \in Oid : \A seed \in commit_oids : c \notin Ancestors(seed)

\* C19: in every graph make_graph returns, a node is main exactly when it is
\* the main branch commit or a VCS ancestor of it.
C19_MainIffOnMain ==
    Returned =>
        \A n \in Keys(graph) : graph[n].is_main <=> n \in Ancestors(main_branch_oid)

\* C19's case: the returned graph has two main nodes (two seeds with
\* different merge-bases) and a node that is not main.
C19_Witness ==
    /\ Returned
    /\ Cardinality({n \in Keys(graph) : graph[n].is_main}) >= 2
    /\ \E n \in Keys(graph) : ~graph[n].is_main

\* The seeds that have no merge-base with the main branch.
UnrelatedSeeds == {seed \in commit_oids : ~HasMergeBase(seed)}

\* C20 as claimed: every seed is a node of the unpruned graph, the one
\* walk_from_commits returns, and a seed
\* that has no merge-base with the main branch is a non-main node with no
\* parent and no children.
C20_UnrelatedIsolated ==
    pc = "linked" =>
        /\ commit_oids \subseteq Keys(walked)
        /\ \A seed \in UnrelatedSeeds :
              /\ ~walked[seed].is_main
              /\ walked[seed].parent = None
              /\ walked[seed].children = {}

\* C20 as amended: every seed is a node of the unpruned graph; a seed that
\* has no merge-base with the main branch is a non-main node, none of its
\* ancestors is a node unless it is a seed itself, its parent (if any) is a
\* VCS parent of it that is such a seed too, its children are the non-main
\* nodes it is a VCS parent of, and it has no parent and no children exactly
\* when no VCS parent of it is a node and it is a VCS parent of no non-main
\* node.
C20_UnrelatedLinkedToSeedsOnly ==
    pc = "linked" =>
        LET unrelated == UnrelatedSeeds
            nodes == Keys(walked)
        IN  /\ commit_oids \subseteq nodes
            /\ \A seed \in unrelated :
                  /\ ~walked[seed].is_main
                  /\ (Ancestors(seed) \cap nodes) \subseteq unrelated
                  /\ walked[seed].parent /= None =>
                        /\ walked[seed].parent \in Range(parents[seed])
                        /\ walked[seed].parent \in unrelated
                  /\ walked[seed].children =
                        {c \in nodes : ~walked[c].is_main /\ seed \in Range(parents[c])}
                  /\ (walked[seed].parent = None /\ walked[seed].children = {}) <=>
                        /\ Range(parents[seed]) \cap nodes = {}
                        /\ \A c \in nodes :
                              seed \in Range(parents[c]) => walked[c].is_main

\* C20's case: seeds without a merge-base and a seed with one were taken, and
\* one of the former has a parent in the unpruned graph.
C20_Witness ==
    /\ Walked
    /\ \E seed \in UnrelatedSeeds : walked[seed].parent /= None
    /\ \E seed \in commit_oids : HasMergeBase(seed)

----------------------------------------------------------------------------
(* Properties of the pruned graph after amending a commit twice *)

\* The graph was built and pruned after commit old was amended to mid and
\* mid to new: the three commits have the same VCS parents, all three are
\* seeds, the replayer reports old and mid as Hidden (each is the old OID of
\* the latest rewrite event about it) and new as Visible, and HEAD is new.
AmendedTwice(old, mid, new) ==
    /\ Pruned
    /\ old /= mid /\ mid /= new /\ old /= new
    /\ parents[old] = parents[mid] /\ parents[mid] = parents[new]
    /\ {old, mid, new} \subseteq commit_oids
    /\ {old, mid, new} \subseteq Keys(walked)
    /\ ~walked[old].is_visible /\ ~walked[mid].is_visible /\ walked[new].is_visible
    /\ head_oid = new

\* C21 as claimed: after two amends the pruned graph has old and mid as
\* nodes that are not visible and new as a visible node.
C21_BothObsoleteKept ==
    Pruned => \A old \in commit_oids, mid \in commit_oids, new \in {head_oid} \ {None} :
        AmendedTwice(old, mid, new) =>
            /\ {old, mid, new} \subseteq Keys(graph)
            /\ ~graph[old].is_visible /\ ~graph[mid].is_visible
            /\ graph[new].is_visible

\* C21 as amended: after two amends the pruned graph has new as a visible
\* node; old and mid are each a node (not visible) exactly when the commit is
\* a main node, a branch OID, or has a child that is kept.
C21_ObsoleteKeptWhenNeeded ==
    Pruned => \A old \in commit_oids, mid \in commit_oids, new \in {head_oid} \ {None} :
        AmendedTwice(old, mid, new) =>
            /\ new \in Keys(graph) /\ graph[new].is_visible
            /\ \A o \in {old, mid} :
                  /\ o \in Keys(graph) <=>
                        \/ walked[o].is_main
                        \/ o \in branch_oids
                        \/ walked[o].children \cap Keys(graph) /= {}
                  /\ o \in Keys(graph) => ~graph[o].is_visible

\* C21's case: after two amends, old is kept as a main node that is not
\* visible and mid, which nothing holds, is removed.
C21_Witness ==
    Pruned /\ \E old \in commit_oids, mid \in commit_oids, new \in {head_oid} \ {None} :
        /\ AmendedTwice(old, mid, new)
        /\ old \in Keys(graph) /\ walked[old].is_main
        /\ mid \notin Keys(graph)

----------------------------------------------------------------------------
(* Properties of the seed loop of walk_from_commits *)

\* The OIDs of a set in ascending order.
RECURSIVE Ascending(_)
Ascending(S) == IF S = {} THEN <<>> ELSE <<Min(S)>> \o Ascending(S \ {Min(S)})

\* C28: whatever order the seed loop took the seeds in, the graph that
\* walk_from_commits returned is the one it returns when it takes the same
\* seeds in ascending order with the same visibility of the commits, and the
\* graph make_graph returns is the pruning of it for the same HEAD and
\* branch OIDs. (The unpruned graph is compared in the state in which
\* walk_from_commits returns; it does not change afterwards.)
C28_SeedOrderIrrelevant ==
    Walked =>
        /\ pc = "linked" =>
              walked = walk_from_commits(Ascending(commit_oids),
                                         {o \in Keys(walked) : ~walked[o].is_visible})
        /\ Returned =>
              graph = IF remove_commits
                      THEN do_remove_commits(walked, head_oid, branch_oids)
                      ELSE walked

\* C28's case: two seeds were taken, the path of one runs through the other,
\* and the graph was pruned.
C28_Witness ==
    /\ Pruned
    /\ \E s1 \in commit_oids, s2 \in commit_oids :
          /\ s1 /= s2
          /\ s2 \in Range(path_to_merge_base(s1))
          /\ Len(path_to_merge_base(s2)) >= 2

\* C29: once the seed loop has processed a seed that has a merge-base with
\* the main branch and a path to it, the merge-base is a node of the graph,
\* after every seed and when walk_from_commits returns.
C29_MergeBaseInGraph ==
    pc \in {"walk", "linked"} =>
        \A seed \in commit_oids :
            LET merge_base_oid == get_merge_base_oid(seed, main_branch_oid)
            IN  \/ merge_base_oid = None
                \/ merge_base_oid \in Keys(graph)
                \/ path_to_merge_base(seed) = NoPath

\* C29's case: the seed loop is still running and has taken two seeds, the
\* path of one running through the other to a merge-base further on, so that
\* the insertion of the later one's path stopped early.
C29_Witness ==
    /\ pc = "walk"
    /\ \E s1 \in commit_oids, s2 \in commit_oids :
          LET path == path_to_merge_base(s1)
          IN  /\ s1 /= s2
              /\ Len(path) >= 3
              /\ \E i \in 2..(Len(path) - 1) : path[i] = s2

----------------------------------------------------------------------------
(* Termination of find_path_to_merge_base_internal *)

\* C27: the loop of find_path_to_merge_base_internal, once entered, ends: it
\* returns a path or finds its queue empty and returns None.
C27_Terminates == (bfs_pc = "loop") ~> (bfs_pc \in {"found", "none"})

\* C27's case: a search whose path reached the merge-base, which is neither
\* the start nor the target, has ended with None after its queue became empty.
C27_Witness ==
    /\ bfs_pc = "none"
    /\ bfs_merge_base_oid \notin {None, bfs_commit_oid, bfs_target_oid}

----------------------------------------------------------------------------
(* with_siv and the log level *)

\* C25: the maximum log level is Off for the whole run of f, and when
\* with_siv has returned, after f returned Ok or Err, the level is again the
\* one that was in force when with_siv was called.
C25_LevelOffThenRestored ==
    /\ siv_pc = "in_f" => log_max_level = "Off"
    /\ siv_pc = "returned" =>
           /\ siv_result \in {"Ok", "Err"}
           /\ log_max_level = siv_level_at_call

\* C25's case: f ran for a while and returned Err, and the level in force at
\* the call was not Off.
C25_Witness ==
    /\ siv_pc = "returned"
    /\ siv_result = "Err"
    /\ siv_f_steps > 0
    /\ siv_level_at_call \notin {"Off", NoLevel}

----------------------------------------------------------------------------
(* poll_event of the testing backend *)

\* The cursive events of the Event entries among the first n entries of the
\* list, in list order.
EventsAmong(n) ==
    LET entries == SelectSeq(SubSeq(events, 1, n), LAMBDA entry : entry.kind = "Event")
    IN  [i \in 1..Len(entries) |-> entries[i].event]

\* The entries of the list poll_event has gone through.
Consumed(index) == Min({index, Len(events)})

\* C26, as a property of every call of poll_event: (a) the events returned so
\* far are those of the Event entries gone through so far, each once and in
\* list order, so that no TakeScreenshot entry is ever returned; (b) a call
\* that returns an event is not directly preceded by one that returned an
\* event; (c) every TakeScreenshot entry the call goes through leaves the
\* current screen in its cell, and the other cells are left alone; (d) a call
\* on an exhausted list returns None.
C26_PollStep ==
    polled' /= polled =>
        LET result == polled'[Len(polled')]
            taken == {events[i].screen_target :
                          i \in {j \in (Consumed(event_index) + 1)..Consumed(event_index') :
                                     events[j].kind = "TakeScreenshot"}}
        IN  /\ SelectSeq(polled', LAMBDA r : r /= NoEvent) = EventsAmong(Consumed(event_index'))
            /\ result /= NoEvent => polled = <<>> \/ polled[Len(polled)] = NoEvent
            /\ result /= NoEvent => result \in CursiveEvents
            /\ \A c \in Cells :
                   screen_targets'[c] = IF c \in taken THEN screen ELSE screen_targets[c]
            /\ event_index >= Len(events) => result = NoEvent

C26_PollEventFeedsList == [][C26_PollStep]_vars

\* C26's case: a list with two events and a screenshot between them has been
\* returned whole, the screenshot holds a screen that was drawn on, and a
\* further call on the exhausted list has returned None.
C26_Witness ==
    /\ Len(events) = 3
    /\ events[1].kind = "Event"
    /\ events[2].kind = "TakeScreenshot"
    /\ events[3].kind = "Event"
    /\ screen_targets[events[2].screen_target] \notin {NoScreen, BlankScreen}
    /\ event_index > Len(events)
    /\ polled = <<events[1].event, NoEvent, events[3].event, NoEvent, NoEvent>>

----------------------------------------------------------------------------
(* move *)

\* move has gone past make_graph.
GraphBuilt == mv_pc \in {"graph", "base", "tx", "plan", "failed"}
                  \/ (mv_pc = "returned" /\ mv_args = NoArgs)

\* move has called execute_rebase_plan.
PlanExecuted == mv_pc = "returned" /\ mv_args = NoArgs

\* C22: a move that returns 0 has allocated exactly one transaction id, named
\* "move"; the id is allocated after the graph is built and before the plan is
\* executed; every rewrite event of the execution carries that id, and there
\* is one for each pick of the plan.
C22_OneMoveTransaction ==
    /\ event_tx_ids /= <<>> => GraphBuilt /\ pc = "done"
    /\ mv_pc \in {"graph", "base"} => event_tx_ids = <<>> /\ event_log = {}
    /\ mv_pc \in {"tx", "plan"} => Len(event_tx_ids) = 1 /\ event_log = {}
    /\ PlanExecuted =>
           /\ Len(event_tx_ids) = 1
           /\ event_tx_ids[1].name = "move"
           /\ event_tx_ids[1].id = event_tx_id
           /\ \A e \in event_log : e.tx_id = event_tx_ids[1].id
           /\ mv_exit = 0 => {e.old_oid : e \in event_log} = rebase_plan.picks

\* C22's case: a move of a subtree of two commits has returned 0, under a
\* transaction id other than the first.
C22_Witness ==
    /\ PlanExecuted
    /\ mv_exit = 0
    /\ event_tx_id > 1
    /\ Cardinality(event_log) >= 2

\* The chain of parent links of g from oid upwards, oid first.
RECURSIVE ParentChain(_, _)
ParentChain(g, oid) ==
    IF g[oid].parent = None \/ g[oid].parent \notin Keys(g) THEN <<oid>>
    ELSE <<oid>> \o ParentChain(g, g[oid].parent)

\* The nodes r on the chain from oid such that r and every node between oid
\* and r are non-main and r's parent is a main node or absent.
BaseCandidates(g, oid) ==
    LET chain == ParentChain(g, oid)
    IN  {chain[i] : i \in {k \in 1..Len(chain) :
                              /\ \A j \in 1..k : ~g[chain[j]].is_main
                              /\ \/ g[chain[k]].parent = None
                                 \/ g[g[chain[k]].parent].is_main}}

\* C23: on the graph move builds, resolve_base_commit returns, for every OID
\* of the graph, the OID itself when its node is main or has no parent, and
\* otherwise the one node r of its parent chain that is non-main, is reached
\* through non-main nodes only and has a main or no parent; move replaces
\* source_oid by that node when --base was given.
C23_ResolvesBase ==
    mv_pc = "base" =>
        /\ \A oid \in Keys(graph) :
               LET r == resolve_base_commit(graph, oid)
               IN  IF graph[oid].is_main \/ graph[oid].parent = None
                   THEN r = oid
                   ELSE BaseCandidates(graph, oid) = {r}
        /\ source_oid = IF should_resolve_base_commit
                        THEN resolve_base_commit(graph, head_oid)
                        ELSE head_oid

\* C23's case: --base was given and the resolution went up from the commit
\* given, which is two parent links away from the main branch.
C23_Witness ==
    /\ mv_pc = "base"
    /\ should_resolve_base_commit
    /\ source_oid /= head_oid
    /\ graph[source_oid].parent /= None
    /\ graph[graph[source_oid].parent].is_main

\* The arguments of C24: both --source and --base, or a source or a
\* destination that names no commit.
Rejectable(args) ==
    \/ args.source /= "absent" /\ args.base /= "absent"
    \/ "unknown" \in {args.source, args.base, args.dest}

\* C24: a move with such arguments returns 1 and has allocated no transaction
\* id and made or executed no plan.
C24_RejectedWithExitOne ==
    (mv_args /= NoArgs /\ Rejectable(mv_args)) =>
        /\ mv_pc = "returned"
        /\ mv_exit = 1
        /\ event_tx_ids = <<>>
        /\ rebase_plan = NoPlan
        /\ event_log = {}

====
